---- MODULE Spec2Model ----
(***************************************************************************)
(* A model of lang/syn/src/parser/accounts.rs: the parser that turns the   *)
(* fields of an accounts struct, and the `#[account(..)]` attribute of     *)
(* each field, into the AccountsStruct AST.                                *)
(*                                                                         *)
(* Every function of the file is a pure function of its syntax-tree input  *)
(* and is modelled by an operator that computes what the code computes,    *)
(* a panic being an outcome that carries only its message.  The state      *)
(* machine is the run of `parse` over one input struct: the iterator over  *)
(* the named fields, the vector under collection, and the returned value.  *)
(***************************************************************************)
EXTENDS Integers, Sequences, FiniteSets, TLC

VARIABLES
    strct,      \* the syn::ItemStruct handed to parse
    pc,         \* "start" while parse runs, then "done" or "panicked"
    idx,        \* number of fields the iterator of parse has yielded so far
    fields,     \* the Vec<AccountField> being collected
    result,     \* None, or Some of the arguments of AccountsStruct::new
    panic_msg   \* None, or Some of the message of the panic that ended parse

vars == <<strct, pc, idx, fields, result, panic_msg>>

-----------------------------------------------------------------------------
(* Bounds of the checked input space. *)

\* longest annotation made of arbitrary tokens
MaxTokens == 3
\* longest annotation made of clauses
MaxClauses == 3
\* most fields in a struct
MaxFields == 3
\* most generic arguments of a type
MaxGenericArgs == 3
\* most attributes on a field
MaxAttrs == 2
\* longest annotation of a composite field, in clauses
MaxCompositeClauses == 2

-----------------------------------------------------------------------------
(* Option<T> is a sequence of length at most one. *)

None == <<>>
Some(x) == <<x>>
IsSome(o) == Len(o) = 1
IsNone(o) == Len(o) = 0
Unwrap(o) == o[1]

-----------------------------------------------------------------------------
(* proc_macro2::TokenTree.  `text` is the text of an identifier or the     *)
(* character of a punctuation, `lit` the characters a literal prints as,   *)
(* `stream` the token stream inside a group.                               *)

Ident(s) == [kind |-> "Ident", text |-> s, lit |-> <<>>, stream |-> <<>>]
Punct(c) == [kind |-> "Punct", text |-> c, lit |-> <<>>, stream |-> <<>>]
Literal(cs) == [kind |-> "Literal", text |-> "", lit |-> cs, stream |-> <<>>]
Group(ts) == [kind |-> "Group", text |-> "", lit |-> <<>>, stream |-> ts]

\* The panics of a failed unwrap and of a failed assert carry no message of
\* the program; they are named by what failed.
UnwrapNoneMsg == "unwrap on None"
AssertEqMsg == "assertion failed: punct is not the equals sign"
AssertSegmentsMsg == "assertion failed: path has not one segment"
AssertArgsMsg == "assertion failed: not two generic arguments"
LexErrorMsg == "unwrap on Err: LexError"

\* The double-quote character of a literal's text.
Quote == "dquote"

-----------------------------------------------------------------------------
(* literal.to_string().replace(quote, empty).parse().unwrap()              *)

\* str::replace: every double-quote character is removed.
StripQuotes(cs) == SelectSeq(cs, LAMBDA c : c # Quote)

\* Nesting depth after each prefix of the characters; -1 once a closing
\* delimiter has no opening one.
RECURSIVE DelimDepth(_, _)
DelimDepth(cs, d) ==
    IF d < 0 \/ cs = <<>> THEN d
    ELSE DelimDepth(Tail(cs),
                    IF Head(cs) = "(" THEN d + 1
                    ELSE IF Head(cs) = ")" THEN d - 1
                    ELSE d)

\* TokenStream::from_str is Ok: the lexer rejects unbalanced delimiters; the
\* stream is otherwise the lexemes of the text.
Lexes(cs) == DelimDepth(cs, 0) = 0

-----------------------------------------------------------------------------
(* crate::Constraint.  `target` is the identifier of BelongsTo, Owner,     *)
(* State and Associated, `seeds` the group of Seeds, `tokens` the token    *)
(* stream of Literal, `mode` the ConstraintRentExempt of RentExempt.       *)

Constraint(k, target, seeds, tokens, mode) ==
    [kind |-> k, target |-> target, seeds |-> seeds, tokens |-> tokens, mode |-> mode]

ConstraintSigner == Constraint("Signer", "", <<>>, <<>>, "")
ConstraintSeeds(g) == Constraint("Seeds", "", <<g>>, <<>>, "")
ConstraintBelongsTo(t) == Constraint("BelongsTo", t, <<>>, <<>>, "")
ConstraintOwner(t) == Constraint("Owner", t, <<>>, <<>>, "")
ConstraintRentExempt(m) == Constraint("RentExempt", "", <<>>, <<>>, m)
ConstraintExecutable == Constraint("Executable", "", <<>>, <<>>, "")
ConstraintState(t) == Constraint("State", t, <<>>, <<>>, "")
ConstraintAssociated(t) == Constraint("Associated", t, <<>>, <<>>, "")
ConstraintLiteral(ts) == Constraint("Literal", "", <<>>, ts, "")

-----------------------------------------------------------------------------
(* parse_constraints: the locals of the function, the position of the      *)
(* iterator inner_tts, and the panic that ended it, if any.                *)

InitialLocals ==
    [is_init |-> FALSE, is_mut |-> FALSE, is_signer |-> FALSE,
     constraints |-> <<>>, is_rent_exempt |-> None, payer |-> None,
     space |-> None, is_associated |-> FALSE, associated_seeds |-> <<>>,
     pos |-> 1, panic |-> None]

Panicked(st) == IsSome(st.panic)
PanicWith(st, m) == [st EXCEPT !.panic = Some(m)]

\* inner_tts.next() is Some
HasNext(toks, st) == st.pos <= Len(toks)
\* the token inner_tts.next() yields, and the iterator after it
Peek(toks, st) == toks[st.pos]
Advance(st) == [st EXCEPT !.pos = @ + 1]

\* match inner_tts.next().unwrap() { Punct(p) => assert!(p == '='), _ => panic }
ExpectEq(toks, st) ==
    IF ~HasNext(toks, st) THEN PanicWith(st, UnwrapNoneMsg)
    ELSE IF Peek(toks, st).kind # "Punct" THEN PanicWith(Advance(st), "invalid syntax")
    ELSE IF Peek(toks, st).text # "=" THEN PanicWith(Advance(st), AssertEqMsg)
    ELSE Advance(st)

\* ExpectKind that looks at the value without consuming it.
ExpectKind_Peek(toks, st, kind, msg) ==
    IF ~HasNext(toks, st) THEN PanicWith(st, UnwrapNoneMsg)
    ELSE IF Peek(toks, st).kind # kind THEN PanicWith(Advance(st), msg)
    ELSE st

\* match inner_tts.next().unwrap() { <kind>(v) => v, _ => panic!(msg) }
ExpectKind(toks, st, kind, msg) ==
    IF ~HasNext(toks, st) THEN PanicWith(st, UnwrapNoneMsg)
    ELSE IF Peek(toks, st).kind # kind THEN PanicWith(Advance(st), msg)
    ELSE Advance(st)

\* The two consumptions after a value-bearing keyword: `=`, then the value.
\* In the state returned without a panic the value is the token before pos.
ExpectEqThen(toks, st, kind, msg) ==
    LET s1 == ExpectEq(toks, st)
    IN  IF Panicked(s1) THEN s1 ELSE ExpectKind(toks, s1, kind, msg)

Value(toks, st) == toks[st.pos - 1]

\* Push that inserts at the front of the list.
Push_Front(st, c) == [st EXCEPT !.constraints = <<c>> \o @]

Push(st, c) == [st EXCEPT !.constraints = Append(@, c)]

\* KwInit with the default written over a decision already taken.
KwInit_Overwrite(toks, st) ==
    [st EXCEPT !.is_init = TRUE, !.is_mut = TRUE, !.is_rent_exempt = Some(TRUE)]

KwInit(toks, st) ==
    [st EXCEPT !.is_init = TRUE,
               !.is_mut = TRUE,
               !.is_rent_exempt = IF IsNone(@) THEN Some(TRUE) ELSE @]

KwMut(toks, st) == [st EXCEPT !.is_mut = TRUE]

\* KwSigner without the flag.
KwSigner_NoFlag(toks, st) == Push(st, ConstraintSigner)

KwSigner(toks, st) == Push([st EXCEPT !.is_signer = TRUE], ConstraintSigner)

KwSeeds(toks, st) ==
    LET s == ExpectEqThen(toks, st, "Group", "invalid syntax")
    IN  IF Panicked(s) THEN s ELSE Push(s, ConstraintSeeds(Value(toks, s)))

KwBelongsTo(toks, st) ==
    LET s == ExpectEqThen(toks, st, "Ident", "invalid syntax")
    IN  IF Panicked(s) THEN s ELSE Push(s, ConstraintBelongsTo(Value(toks, s).text))

KwOwner(toks, st) ==
    LET s == ExpectEqThen(toks, st, "Ident", "invalid syntax")
    IN  IF Panicked(s) THEN s ELSE Push(s, ConstraintOwner(Value(toks, s).text))

\* KwRentExempt whose bare form leaves a decision already taken.
KwRentExempt_KeepSet(toks, st) ==
    IF ~HasNext(toks, st)
    THEN [st EXCEPT !.is_rent_exempt = IF IsNone(@) THEN Some(TRUE) ELSE @]
    ELSE LET s == ExpectEqThen(toks, st, "Ident", "invalid syntax")
         IN  IF Panicked(s) THEN s
             ELSE IF Value(toks, s).text = "skip"
                  THEN [s EXCEPT !.is_rent_exempt = Some(FALSE)]
                  ELSE PanicWith(s, "invalid syntax")

\* KwRentExempt that takes a following comma as the end of a bare clause.
KwRentExempt_CommaOk(toks, st) ==
    IF ~HasNext(toks, st) \/ Peek(toks, st) = Punct(",")
    THEN [st EXCEPT !.is_rent_exempt = Some(TRUE)]
    ELSE LET s == ExpectEqThen(toks, st, "Ident", "invalid syntax")
         IN  IF Panicked(s) THEN s
             ELSE IF Value(toks, s).text = "skip"
                  THEN [s EXCEPT !.is_rent_exempt = Some(FALSE)]
                  ELSE PanicWith(s, "invalid syntax")

KwRentExempt(toks, st) ==
    IF ~HasNext(toks, st) THEN [st EXCEPT !.is_rent_exempt = Some(TRUE)]
    ELSE LET s == ExpectEqThen(toks, st, "Ident", "invalid syntax")
         IN  IF Panicked(s) THEN s
             ELSE IF Value(toks, s).text = "skip"
                  THEN [s EXCEPT !.is_rent_exempt = Some(FALSE)]
                  ELSE PanicWith(s, "invalid syntax: omit the rent_exempt attribute to enforce rent exemption")

KwExecutable(toks, st) == Push(st, ConstraintExecutable)

KwState(toks, st) ==
    LET s == ExpectEqThen(toks, st, "Ident", "invalid syntax")
    IN  IF Panicked(s) THEN s ELSE Push(s, ConstraintState(Value(toks, s).text))

\* KwAssociated that leaves the mutable flag.
KwAssociated_NoMut(toks, st) ==
    LET s == ExpectEqThen(toks, [st EXCEPT !.is_associated = TRUE], "Ident", "invalid syntax")
    IN  IF Panicked(s) THEN s ELSE Push(s, ConstraintAssociated(Value(toks, s).text))

KwAssociated(toks, st) ==
    LET s == ExpectEqThen(toks, [st EXCEPT !.is_associated = TRUE, !.is_mut = TRUE],
                          "Ident", "invalid syntax")
    IN  IF Panicked(s) THEN s ELSE Push(s, ConstraintAssociated(Value(toks, s).text))

KwWith(toks, st) ==
    LET s == ExpectEqThen(toks, st, "Ident", "invalid syntax")
    IN  IF Panicked(s) THEN s
        ELSE [s EXCEPT !.associated_seeds = Append(@, Value(toks, s).text)]

KwPayer(toks, st) ==
    LET s == ExpectEqThen(toks, st, "Ident", "invalid syntax")
    IN  IF Panicked(s) THEN s ELSE [s EXCEPT !.payer = Some(Value(toks, s).text)]

KwSpace(toks, st) ==
    LET s == ExpectEqThen(toks, st, "Literal", "invalid space")
    IN  IF Panicked(s) THEN s
        ELSE LET cs == StripQuotes(Value(toks, s).lit)
             IN  IF Lexes(cs) THEN [s EXCEPT !.space = Some(cs)]
                 ELSE PanicWith(s, LexErrorMsg)

\* The arm for a top-level literal.
TopLiteral(tok, st) ==
    LET cs == StripQuotes(tok.lit)
    IN  IF Lexes(cs) THEN Push(st, ConstraintLiteral(cs)) ELSE PanicWith(st, LexErrorMsg)

\* TopPunct that lets every punctuation pass.
TopPunct_AnyPunct(tok, st) == st

\* The arm for a top-level punctuation.
TopPunct(tok, st) == IF tok.text # "," THEN PanicWith(st, "invalid syntax") ELSE st

\* The arm for a top-level identifier; st is past the identifier.
TopIdent(toks, tok, st) ==
    CASE tok.text = "init" -> KwInit(toks, st)
      [] tok.text = "mut" -> KwMut(toks, st)
      [] tok.text = "signer" -> KwSigner(toks, st)
      [] tok.text = "seeds" -> KwSeeds(toks, st)
      [] tok.text \in {"belongs_to", "has_one"} -> KwBelongsTo(toks, st)
      [] tok.text = "owner" -> KwOwner(toks, st)
      [] tok.text = "rent_exempt" -> KwRentExempt(toks, st)
      [] tok.text = "executable" -> KwExecutable(toks, st)
      [] tok.text = "state" -> KwState(toks, st)
      [] tok.text = "associated" -> KwAssociated(toks, st)
      [] tok.text = "with" -> KwWith(toks, st)
      [] tok.text = "payer" -> KwPayer(toks, st)
      [] tok.text = "space" -> KwSpace(toks, st)
      [] OTHER -> PanicWith(st, "invalid syntax")

\* One iteration of `while let Some(token) = inner_tts.next()`.
Dispatch(toks, st) ==
    LET tok == Peek(toks, st)
        s == Advance(st)
    IN  CASE tok.kind = "Ident" -> TopIdent(toks, tok, s)
          [] tok.kind = "Punct" -> TopPunct(tok, s)
          [] tok.kind = "Literal" -> TopLiteral(tok, s)
          [] OTHER -> PanicWith(s, "invalid syntax")

\* The while loop, from the locals st to the locals at its exit or panic.
RECURSIVE TokenLoop(_, _)
TokenLoop(toks, st) ==
    IF Panicked(st) \/ ~HasNext(toks, st) THEN st
    ELSE TokenLoop(toks, Dispatch(toks, st))

\* CancelInit that keeps `init`.
CancelInit_Keep(st) == st

\* If `associated` is given, remove `init`.
CancelInit(st) == IF st.is_associated THEN [st EXCEPT !.is_init = FALSE] ELSE st

\* PushRentExempt with the arms of the match exchanged.
PushRentExempt_Swapped(st) ==
    IF IsSome(st.is_rent_exempt)
    THEN Push(st, ConstraintRentExempt(IF Unwrap(st.is_rent_exempt) THEN "Skip" ELSE "Enforce"))
    ELSE st

\* if let Some(is_re) = is_rent_exempt { constraints.push(RentExempt(..)) }
PushRentExempt(st) ==
    IF IsSome(st.is_rent_exempt)
    THEN Push(st, ConstraintRentExempt(IF Unwrap(st.is_rent_exempt) THEN "Enforce" ELSE "Skip"))
    ELSE st

\* The tuple parse_constraints returns.
ConstraintsTuple(st) ==
    [constraints |-> st.constraints, is_mut |-> st.is_mut, is_signer |-> st.is_signer,
     is_init |-> st.is_init, payer |-> st.payer, space |-> st.space,
     associated_seeds |-> st.associated_seeds]

\* EmptyTuple with the mutable flag set.
EmptyTuple_Mut ==
    [constraints |-> <<>>, is_mut |-> TRUE, is_signer |-> FALSE, is_init |-> FALSE,
     payer |-> None, space |-> None, associated_seeds |-> <<>>]

\* The tuple parse_field uses for a field without an anchor attribute.
EmptyTuple ==
    [constraints |-> <<>>, is_mut |-> FALSE, is_signer |-> FALSE, is_init |-> FALSE,
     payer |-> None, space |-> None, associated_seeds |-> <<>>]

\* The outcome of a function that may panic: ok with a value, or a message.
\* `val` is a sequence of length one when ok, so that outcomes of every
\* function have one shape.
Ok(v) == [ok |-> TRUE, val |-> <<v>>, msg |-> ""]
Panic(m) == [ok |-> FALSE, val |-> <<>>, msg |-> m]
Val(o) == o.val[1]

\* parse_constraints(anchor)
ParseConstraints(anchor) ==
    IF anchor.tokens = <<>> THEN Panic("Must have a token group")
    ELSE IF anchor.tokens[1].kind # "Group" THEN Panic("Invalid syntax")
    ELSE LET st == TokenLoop(anchor.tokens[1].stream, InitialLocals)
         IN  IF Panicked(st) THEN Panic(Unwrap(st.panic))
             ELSE Ok(ConstraintsTuple(PushRentExempt(CancelInit(st))))

-----------------------------------------------------------------------------
(* The syntax tree parse reads.                                            *)
(*   syn::Type: `kind` is "Path" for Type::Path and names another variant  *)
(*     otherwise; `segments` are the segments of the path.                 *)
(*   syn::PathSegment: the identifier and the PathArguments.               *)
(*   syn::GenericArgument: `kind` is "Type", "Lifetime" or "Const"; for a  *)
(*     type, `ty_kind` is its variant and `segments` the identifiers of    *)
(*     the segments of its path.                                           *)
(*   syn::Attribute: the segments of its path and its tokens.              *)
(*   syn::Field: the optional identifier, the attributes and the type.     *)

PathTy(segs) == [kind |-> "Path", segments |-> segs]
ReferenceTy == [kind |-> "Reference", segments |-> <<>>]
Segment(id, arguments) == [ident |-> id, arguments |-> arguments]
NoArguments == [kind |-> "None", args |-> <<>>]
AngleBracketed(args) == [kind |-> "AngleBracketed", args |-> args]
Parenthesized == [kind |-> "Parenthesized", args |-> <<>>]
LifetimeArg == [kind |-> "Lifetime", ty_kind |-> "", segments |-> <<>>]
ConstArg == [kind |-> "Const", ty_kind |-> "", segments |-> <<>>]
TypeArg(ids) == [kind |-> "Type", ty_kind |-> "Path", segments |-> ids]
ReferenceArg == [kind |-> "Type", ty_kind |-> "Reference", segments |-> <<>>]
Attribute(path, tokens) == [path |-> path, tokens |-> tokens]
SynField(ident, attrs, ty) == [ident |-> ident, attrs |-> attrs, ty |-> ty]

-----------------------------------------------------------------------------
(* The AST parse builds.                                                   *)

\* crate::Ty: the variant, the account_ident of the variants that carry
\* one, and the SysvarTy of Ty::Sysvar.
Ty(kind, account_ident, sysvar) ==
    [kind |-> kind, account_ident |-> account_ident, sysvar |-> sysvar]

\* crate::Field and crate::CompositeField
Field(ident, ty, t) ==
    [ident |-> ident, ty |-> ty, constraints |-> t.constraints, is_mut |-> t.is_mut,
     is_signer |-> t.is_signer, is_init |-> t.is_init, payer |-> t.payer,
     space |-> t.space, associated_seeds |-> t.associated_seeds]

CompositeField(ident, symbol, constraints, raw_field) ==
    [ident |-> ident, symbol |-> symbol, constraints |-> constraints,
     raw_field |-> raw_field]

\* crate::AccountField, the enum over the two
AccountFieldField(f) == [variant |-> "Field", field |-> Some(f), composite |-> None]
AccountFieldAccountsStruct(c) ==
    [variant |-> "AccountsStruct", field |-> None, composite |-> Some(c)]

-----------------------------------------------------------------------------
(* The functions of the parser.                                            *)

\* The closure of the filter of parse_account_attr.
IsAccountAttr(attr) == Len(attr.path) = 1 /\ attr.path[1] = "account"

\* ParseAccountAttr that takes the first of several account attributes.
ParseAccountAttr_First(f) ==
    LET anchor_attrs == SelectSeq(f.attrs, IsAccountAttr)
    IN  IF Len(anchor_attrs) = 0 THEN Ok(None) ELSE Ok(Some(anchor_attrs[1]))

\* parse_account_attr(f): Ok of an Option<&Attribute>, or the panic.
ParseAccountAttr(f) ==
    LET anchor_attrs == SelectSeq(f.attrs, IsAccountAttr)
    IN  CASE Len(anchor_attrs) = 0 -> Ok(None)
          [] Len(anchor_attrs) = 1 -> Ok(Some(anchor_attrs[1]))
          [] OTHER -> Panic("Invalid syntax: please specify one account attribute.")

\* ident_string(f)
IdentString(f) ==
    IF f.ty.kind # "Path" THEN Panic("invalid account syntax")
    ELSE IF Len(f.ty.segments) # 1 THEN Panic(AssertSegmentsMsg)
    ELSE Ok(f.ty.segments[1].ident)

PrimitiveNames ==
    {"ProgramState", "ProgramAccount", "CpiAccount", "Sysvar", "AccountInfo",
     "CpiState", "Loader"}

\* IsFieldPrimitive with a wrapper name missing from the match.
IsFieldPrimitive_NoLoader(f) ==
    LET s == IdentString(f)
    IN  IF ~s.ok THEN s ELSE Ok(Val(s) \in PrimitiveNames \ {"Loader"})

\* is_field_primitive(f)
IsFieldPrimitive(f) ==
    LET s == IdentString(f)
    IN  IF ~s.ok THEN s ELSE Ok(Val(s) \in PrimitiveNames)

\* AccountIdent without the assertion on the number of arguments.
AccountIdent_NoArity(path, msg) ==
    LET arguments == path.segments[1].arguments
    IN  IF arguments.kind # "AngleBracketed" THEN Panic(msg)
        ELSE IF Len(arguments.args) < 2 THEN Panic(AssertArgsMsg)
        ELSE LET a == arguments.args[2]
             IN  IF ~(a.kind = "Type" /\ a.ty_kind = "Path") THEN Panic(msg)
                 ELSE IF Len(a.segments) # 1 THEN Panic(AssertSegmentsMsg)
                 ELSE Ok(a.segments[1])

\* The body shared by parse_account and parse_sysvar: the identifier of the
\* second generic argument, or the panic, whose message for a failed match
\* is msg.
AccountIdent(path, msg) ==
    LET arguments == path.segments[1].arguments
    IN  IF arguments.kind # "AngleBracketed" THEN Panic(msg)
        ELSE IF Len(arguments.args) # 2 THEN Panic(AssertArgsMsg)
        ELSE LET a == arguments.args[2]
             IN  IF ~(a.kind = "Type" /\ a.ty_kind = "Path") THEN Panic(msg)
                 ELSE IF Len(a.segments) # 1 THEN Panic(AssertSegmentsMsg)
                 ELSE Ok(a.segments[1])

\* parse_account(path)
ParseAccount(path) == AccountIdent(path, "Invalid ProgramAccount")

SysvarNames ==
    {"Clock", "Rent", "EpochSchedule", "Fees", "RecentBlockhashes", "SlotHashes",
     "SlotHistory", "StakeHistory", "Instructions", "Rewards"}

\* ParseSysvar with an arm of the match missing.
ParseSysvar_NoRewards(path) ==
    LET account_ident == AccountIdent(path, "Invalid Sysvar")
    IN  IF ~account_ident.ok THEN account_ident
        ELSE IF Val(account_ident) \in SysvarNames \ {"Rewards"} THEN Ok(Val(account_ident))
        ELSE Panic("Invalid Sysvar")

\* parse_sysvar(path): each recognized name maps to the SysvarTy of that name.
ParseSysvar(path) ==
    LET account_ident == AccountIdent(path, "Invalid Sysvar")
    IN  IF ~account_ident.ok THEN account_ident
        ELSE IF Val(account_ident) \in SysvarNames THEN Ok(Val(account_ident))
        ELSE Panic("Invalid Sysvar")

\* parse_program_state, parse_cpi_state, parse_cpi_account,
\* parse_program_account and parse_program_account_zero_copy wrap the
\* identifier parse_account returns in the Ty of their wrapper.
ParseWrapped(kind, path) ==
    LET account_ident == ParseAccount(path)
    IN  IF ~account_ident.ok THEN account_ident
        ELSE Ok(Ty(kind, Some(Val(account_ident)), None))

\* parse_ty(f)
ParseTy(f) ==
    IF f.ty.kind # "Path" THEN Panic("invalid account syntax")
    ELSE LET s == IdentString(f)
         IN  IF ~s.ok THEN s
             ELSE CASE Val(s) \in {"ProgramState", "CpiState", "ProgramAccount",
                                   "CpiAccount", "Loader"} -> ParseWrapped(Val(s), f.ty)
                    [] Val(s) = "Sysvar" ->
                         LET sv == ParseSysvar(f.ty)
                         IN  IF ~sv.ok THEN sv ELSE Ok(Ty("Sysvar", None, Some(Val(sv))))
                    [] Val(s) = "AccountInfo" -> Ok(Ty("AccountInfo", None, None))
                    [] OTHER -> Panic("invalid account type")

\* The match of parse_field on the anchor: the tuple of the field.
FieldTuple(anchor) ==
    IF IsNone(anchor) THEN Ok(EmptyTuple) ELSE ParseConstraints(Unwrap(anchor))

\* ParseField that gives a composite field no constraints.
ParseField_CompositeBare(f, anchor) ==
    IF IsNone(f.ident) THEN Panic(UnwrapNoneMsg)
    ELSE LET t == FieldTuple(anchor)
             prim == IsFieldPrimitive(f)
         IN  IF ~t.ok THEN Panic(t.msg)
             ELSE IF ~prim.ok THEN Panic(prim.msg)
             ELSE IF Val(prim)
                  THEN LET ty == ParseTy(f)
                       IN  IF ~ty.ok THEN Panic(ty.msg)
                           ELSE Ok(AccountFieldField(Field(Unwrap(f.ident), Val(ty), Val(t))))
                  ELSE Ok(AccountFieldAccountsStruct(
                           CompositeField(Unwrap(f.ident), Val(IdentString(f)), <<>>, f)))

\* parse_field(f, anchor)
ParseField(f, anchor) ==
    IF IsNone(f.ident) THEN Panic(UnwrapNoneMsg)
    ELSE LET t == FieldTuple(anchor)
             prim == IsFieldPrimitive(f)
         IN  IF ~t.ok THEN Panic(t.msg)
             ELSE IF ~prim.ok THEN Panic(prim.msg)
             ELSE IF Val(prim)
                  THEN LET ty == ParseTy(f)
                       IN  IF ~ty.ok THEN Panic(ty.msg)
                           ELSE Ok(AccountFieldField(Field(Unwrap(f.ident), Val(ty), Val(t))))
                  ELSE Ok(AccountFieldAccountsStruct(
                           CompositeField(Unwrap(f.ident), Val(IdentString(f)),
                                          Val(t).constraints, f)))

\* parse_account_field(f)
ParseAccountField(f) ==
    LET anchor_attr == ParseAccountAttr(f)
    IN  IF ~anchor_attr.ok THEN Panic(anchor_attr.msg)
        ELSE ParseField(f, Val(anchor_attr))

-----------------------------------------------------------------------------
(* The inputs: the structs parse is run on.                                *)

Keywords ==
    {"init", "mut", "signer", "seeds", "belongs_to", "has_one", "owner",
     "rent_exempt", "executable", "state", "associated", "with", "payer", "space"}

\* a string literal whose text lexes once unquoted, and one whose text does not
GoodLiteral == Literal(<<Quote, "8", "+", "3", Quote>>)
BadLiteral == Literal(<<Quote, "(", Quote>>)
SeedsGroup == Group(<<Ident("foo")>>)

TokenAlphabet ==
    {Ident(s) : s \in Keywords \cup {"skip", "foo"}}
        \cup {Punct(","), Punct("="), Punct(";")}
        \cup {GoodLiteral, BadLiteral, SeedsGroup}

\* the tokens of the longer sequences: of the keywords whose arms have the
\* same shape, one
CoreAlphabet ==
    {Ident(s) : s \in {"init", "signer", "seeds", "belongs_to", "owner", "rent_exempt",
                       "associated", "space", "skip", "foo"}}
        \cup {Punct(","), Punct("="), Punct(";")}
        \cup {GoodLiteral, BadLiteral, SeedsGroup}

\* the well-formed clauses, two of them with a keyword as value, and the
\* separator
ClauseSet ==
    {<<Ident(k)>> : k \in {"init", "mut", "signer", "executable", "rent_exempt"}}
        \cup {<<Ident(k), Punct("="), Ident("foo")>> :
                k \in {"has_one", "state", "associated", "with", "payer"}}
        \cup {<<Ident("owner"), Punct("="), Ident("signer")>>,
              <<Ident("belongs_to"), Punct("="), Ident("init")>>,
              <<Ident("seeds"), Punct("="), SeedsGroup>>,
              <<Ident("space"), Punct("="), GoodLiteral>>,
              <<Ident("rent_exempt"), Punct("="), Ident("skip")>>,
              <<GoodLiteral>>,
              <<Punct(",")>>}

RECURSIVE Flatten(_)
Flatten(ss) == IF ss = <<>> THEN <<>> ELSE Head(ss) \o Flatten(Tail(ss))

\* #[account(toks)]
AccountAttr(toks) == Attribute(<<"account">>, <<Group(toks)>>)

\* ProgramAccount<'info, Foo> and Nested<'info>
LeafTy == PathTy(<<Segment("ProgramAccount", AngleBracketed(<<LifetimeArg, TypeArg(<<"Foo">>)>>))>>)
NestedTy == PathTy(<<Segment("Nested", AngleBracketed(<<LifetimeArg>>))>>)

NamedStruct(fs) == [fields |-> [kind |-> "Named", list |-> fs]]

\* One named field
OneField(attrs, ty) == NamedStruct(<<SynField(Some("a"), attrs, ty)>>)

\* A: one leaf field annotated with any sequence of tokens.
TokenStructs(s) ==
    \E k \in 0..MaxTokens : \E toks \in [1..k -> CoreAlphabet] :
        s = OneField(<<AccountAttr(toks)>>, LeafTy)

\* A': one leaf field annotated with a keyword alone, or followed by one or
\* by two tokens of any kind.
KeywordStructs(s) ==
    \E kw \in Keywords : \E t1, t2 \in TokenAlphabet :
        \E rest \in {<<>>, <<t1>>, <<t1, t2>>} :
            s = OneField(<<AccountAttr(<<Ident(kw)>> \o rest)>>, LeafTy)

\* B: one leaf field annotated with any sequence of clauses.
ClauseStructs(s) ==
    \E k \in 0..MaxClauses : \E cs \in [1..k -> ClauseSet] :
        s = OneField(<<AccountAttr(Flatten(cs))>>, LeafTy)

\* C: one field of any type shape, without annotation or with `init`.
ArgAlphabet ==
    {LifetimeArg, ConstArg, ReferenceArg, TypeArg(<<"Foo">>), TypeArg(<<"Clock">>),
     TypeArg(<<"a", "Foo">>)}
TwoSegmentTy ==
    PathTy(<<Segment("anchor", NoArguments),
             Segment("ProgramAccount", AngleBracketed(<<LifetimeArg, TypeArg(<<"Foo">>)>>))>>)
TypeStructs(s) ==
    \E attrs \in {<<>>, <<AccountAttr(<<Ident("init")>>)>>} :
        \/ \E n \in PrimitiveNames \cup {"Nested"} :
              \/ \E a \in {NoArguments, Parenthesized} :
                    s = OneField(attrs, PathTy(<<Segment(n, a)>>))
              \/ \E k \in 0..MaxGenericArgs : \E as \in [1..k -> ArgAlphabet] :
                    s = OneField(attrs, PathTy(<<Segment(n, AngleBracketed(as))>>))
        \/ \E ty \in {ReferenceTy, TwoSegmentTy} : s = OneField(attrs, ty)

\* D: Sysvar and ProgramAccount of every resource identifier.
ResourceIdents ==
    {"Clock", "Rent", "EpochSchedule", "Fees", "RecentBlockhashes", "SlotHashes",
     "SlotHistory", "StakeHistory", "Instructions", "Rewards", "Foo", "clock"}
ResourceStructs(s) ==
    \E w \in {"Sysvar", "ProgramAccount"}, n \in ResourceIdents :
        s = OneField(<<>>, PathTy(<<Segment(w, AngleBracketed(<<LifetimeArg, TypeArg(<<n>>)>>))>>))

\* E: one field with any list of attributes.
AttrAlphabet ==
    {AccountAttr(<<Ident("init")>>), AccountAttr(<<Ident("signer")>>),
     AccountAttr(<<Ident("foo")>>),
     Attribute(<<"doc">>, <<Punct("="), GoodLiteral>>),
     Attribute(<<"anchor", "account">>, <<Group(<<Ident("mut")>>)>>),
     Attribute(<<"account">>, <<>>),
     Attribute(<<"account">>, <<Punct("="), GoodLiteral>>)}
AttrStructs(s) ==
    \E k \in 0..MaxAttrs : \E attrs \in [1..k -> AttrAlphabet] :
        \E ty \in {LeafTy, NestedTy, ReferenceTy} : s = OneField(attrs, ty)

\* F: several fields, each good or failing in one of the ways a field fails.
FieldAlphabet ==
    {SynField(Some(n), attrs, ty) :
        n \in {"a", "b"},
        attrs \in {<<>>, <<AccountAttr(<<Ident("signer")>>)>>},
        ty \in {LeafTy, NestedTy}}
    \cup {SynField(Some(n), <<>>, ReferenceTy) : n \in {"a", "b"}}
    \cup {SynField(Some(n), <<AccountAttr(<<Ident("foo")>>)>>, LeafTy) : n \in {"a", "b"}}
    \cup {SynField(Some(n), <<AccountAttr(<<Ident("mut")>>), AccountAttr(<<Ident("mut")>>)>>, LeafTy) :
            n \in {"a", "b"}}
    \cup {SynField(Some(n), <<>>, PathTy(<<Segment("Sysvar", NoArguments)>>)) : n \in {"a", "b"}}
RecordStructs(s) ==
    \E k \in 0..MaxFields : \E fs \in [1..k -> FieldAlphabet] : s = NamedStruct(fs)

\* H: one composite field annotated with a sequence of clauses, well-formed
\* or not.
CompositeClauseSet ==
    {<<Ident(k)>> : k \in {"init", "mut", "signer", "rent_exempt", "foo", "owner"}}
        \cup {<<Ident(k), Punct("="), Ident("foo")>> : k \in {"has_one", "associated", "payer"}}
        \cup {<<Ident("rent_exempt"), Punct("="), Ident("skip")>>,
              <<Ident("space"), Punct("="), GoodLiteral>>,
              <<Ident("with"), Punct("="), Ident("foo")>>,
              <<GoodLiteral>>,
              <<Punct(",")>>}
CompositeStructs(s) ==
    \E k \in 0..MaxCompositeClauses : \E cs \in [1..k -> CompositeClauseSet] :
        s = OneField(<<AccountAttr(Flatten(cs))>>, NestedTy)

\* G: structs whose fields are not named.
UnnamedStructs(s) ==
    s \in {[fields |-> [kind |-> "Unit", list |-> <<>>]],
           [fields |-> [kind |-> "Unnamed", list |-> <<>>]],
           [fields |-> [kind |-> "Unnamed", list |-> <<SynField(None, <<>>, LeafTy)>>]]}

InputStruct(s) ==
    \/ TokenStructs(s)
    \/ ClauseStructs(s)
    \/ TypeStructs(s)
    \/ ResourceStructs(s)
    \/ AttrStructs(s)
    \/ RecordStructs(s)
    \/ UnnamedStructs(s)
    \/ CompositeStructs(s)
    \/ KeywordStructs(s)

-----------------------------------------------------------------------------
(* The run of parse(strct).                                                *)

Init ==
    /\ InputStruct(strct)
    /\ pc = "start"
    /\ idx = 0
    /\ fields = <<>>
    /\ result = None
    /\ panic_msg = None

\* match &strct.fields { _ => panic!("invalid input") }
ParseInvalidInput ==
    /\ pc = "start"
    /\ strct.fields.kind # "Named"
    /\ pc' = "panicked"
    /\ panic_msg' = Some("invalid input")
    /\ UNCHANGED <<strct, idx, fields, result>>

\* ParseNextField pushing at the front of the vector.
ParseNextField_Prepend ==
    /\ pc = "start"
    /\ strct.fields.kind = "Named"
    /\ idx < Len(strct.fields.list)
    /\ LET r == ParseAccountField(strct.fields.list[idx + 1])
       IN  /\ r.ok
           /\ fields' = <<Val(r)>> \o fields
    /\ idx' = idx + 1
    /\ UNCHANGED <<strct, pc, result, panic_msg>>

\* Fields::Named(fields) => fields.named.iter().map(..).collect(): the
\* iterator yields the next field, parse_account_field returns and the
\* AccountField is pushed.
ParseNextField ==
    /\ pc = "start"
    /\ strct.fields.kind = "Named"
    /\ idx < Len(strct.fields.list)
    /\ LET r == ParseAccountField(strct.fields.list[idx + 1])
       IN  /\ r.ok
           /\ fields' = Append(fields, Val(r))
    /\ idx' = idx + 1
    /\ UNCHANGED <<strct, pc, result, panic_msg>>

\* ParseFieldPanics that skips the failing field and goes on.
ParseFieldPanics_Skip ==
    /\ pc = "start"
    /\ strct.fields.kind = "Named"
    /\ idx < Len(strct.fields.list)
    /\ ~ParseAccountField(strct.fields.list[idx + 1]).ok
    /\ idx' = idx + 1
    /\ UNCHANGED <<strct, pc, fields, result, panic_msg>>

\* The iterator yields the next field and parse_account_field panics: the
\* unwinding drops the vector under collection and parse returns nothing.
ParseFieldPanics ==
    /\ pc = "start"
    /\ strct.fields.kind = "Named"
    /\ idx < Len(strct.fields.list)
    /\ LET r == ParseAccountField(strct.fields.list[idx + 1])
       IN  /\ ~r.ok
           /\ panic_msg' = Some(r.msg)
    /\ idx' = idx + 1
    /\ fields' = <<>>
    /\ pc' = "panicked"
    /\ UNCHANGED <<strct, result>>

\* The iterator is exhausted: AccountsStruct::new(strct.clone(), fields).
ParseReturn ==
    /\ pc = "start"
    /\ strct.fields.kind = "Named"
    /\ idx = Len(strct.fields.list)
    /\ result' = Some([strct |-> strct, fields |-> fields])
    /\ pc' = "done"
    /\ UNCHANGED <<strct, idx, fields, panic_msg>>

Next == ParseInvalidInput \/ ParseNextField \/ ParseFieldPanics \/ ParseReturn

Spec == Init /\ [][Next]_vars

-----------------------------------------------------------------------------
(* What the properties below speak of: the declared field and the parsed   *)
(* AccountField at an index, the annotation of a field read off its        *)
(* tokens, and the clauses of an annotation.                               *)

\* the i-th declared field, and the AccountField pushed for it
Declared(i) == strct.fields.list[i]
Parsed(i) == fields[i]
ParsedIndices == 1..Len(fields)

IsLeaf(o) == o.variant = "Field"
IsComposite(o) == o.variant = "AccountsStruct"
Leaf(o) == o.field[1]
Composite(o) == o.composite[1]
ConstraintsOf(o) == IF IsLeaf(o) THEN Leaf(o).constraints ELSE Composite(o).constraints
NameOf(o) == IF IsLeaf(o) THEN Leaf(o).ident ELSE Composite(o).ident

\* the attributes of f whose path is the single segment `account`
AccountAttrsOf(f) == SelectSeq(f.attrs, LAMBDA a : a.path = <<"account">>)
\* f carries exactly one of them, a token group
Annotated(f) ==
    /\ Len(AccountAttrsOf(f)) = 1
    /\ AccountAttrsOf(f)[1].tokens # <<>>
    /\ AccountAttrsOf(f)[1].tokens[1].kind = "Group"
\* the tokens inside that group
AnnotationOf(f) == AccountAttrsOf(f)[1].tokens[1].stream

IsEq(t) == t.kind = "Punct" /\ t.text = "="
\* Token i of toks is the keyword k opening a clause: it is the identifier k
\* and is not the value after an `=`.
ClauseAt(toks, i, k) ==
    /\ toks[i].kind = "Ident"
    /\ toks[i].text = k
    /\ (i = 1 \/ ~IsEq(toks[i - 1]))
ClausePositions(toks, k) == {i \in 1..Len(toks) : ClauseAt(toks, i, k)}
HasClause(toks, k) == ClausePositions(toks, k) # {}
\* the positions of the clauses `rent_exempt = ..` and of the bare `rent_exempt`
RentExemptValued(toks) ==
    {i \in ClausePositions(toks, "rent_exempt") : i < Len(toks) /\ IsEq(toks[i + 1])}
RentExemptBare(toks) == ClausePositions(toks, "rent_exempt") \ RentExemptValued(toks)

\* the positions in the constraint list cs of the constraints of kind k
Positions(cs, k) == {j \in 1..Len(cs) : cs[j].kind = k}
Count(cs, k) == Cardinality(Positions(cs, k))

-----------------------------------------------------------------------------
\* C1: an accepted annotation with at least one `init`, at least one
\* `rent_exempt = skip` and no bare `rent_exempt` yields exactly one RentExempt
\* constraint, and it is RentExempt(Skip), whatever the order of the clauses.
C1_SkipSurvivesInit ==
    \A i \in ParsedIndices :
        Annotated(Declared(i)) =>
            LET toks == AnnotationOf(Declared(i))
                cs == ConstraintsOf(Parsed(i))
            IN  (/\ HasClause(toks, "init")
                 /\ RentExemptValued(toks) # {}
                 /\ RentExemptBare(toks) = {})
                    => /\ Count(cs, "RentExempt") = 1
                       /\ \A j \in Positions(cs, "RentExempt") : cs[j].mode = "Skip"

\* `rent_exempt = skip` before an `init`, parsed, with its Skip constraint
C1_Witness ==
    /\ pc = "done"
    /\ Len(fields) = 1
    /\ Annotated(Declared(1))
    /\ LET toks == AnnotationOf(Declared(1))
       IN  /\ \E i \in RentExemptValued(toks) : \E j \in ClausePositions(toks, "init") : i < j
           /\ RentExemptBare(toks) = {}
    /\ ConstraintRentExempt("Skip") \in {ConstraintsOf(Parsed(1))[j] : j \in 1..Len(ConstraintsOf(Parsed(1)))}

\* C2: an accepted annotation with an `associated = X` clause yields
\* mutable = true and initialize = false, wherever `init` occurs, if at all.
C2_AssociatedCancelsInit ==
    \A i \in ParsedIndices :
        (/\ Annotated(Declared(i))
         /\ IsLeaf(Parsed(i))
         /\ HasClause(AnnotationOf(Declared(i)), "associated"))
            => Leaf(Parsed(i)).is_mut /\ ~Leaf(Parsed(i)).is_init

\* `init` both before and after an `associated` clause, parsed
C2_Witness ==
    /\ pc = "done"
    /\ Len(fields) = 1
    /\ Annotated(Declared(1))
    /\ IsLeaf(Parsed(1))
    /\ LET toks == AnnotationOf(Declared(1))
       IN  \E a \in ClausePositions(toks, "associated") :
              /\ \E j \in ClausePositions(toks, "init") : j < a
              /\ \E j \in ClausePositions(toks, "init") : j > a
    /\ ~Leaf(Parsed(1)).is_init

\* C3: an accepted annotation with `init`, without `associated` and without
\* `rent_exempt`, yields initialize = true, mutable = true and exactly one
\* RentExempt constraint, RentExempt(Enforce); for `init` alone the constraint
\* list is that one element.
C3_InitDefaults ==
    \A i \in ParsedIndices :
        (/\ Annotated(Declared(i))
         /\ IsLeaf(Parsed(i))
         /\ HasClause(AnnotationOf(Declared(i)), "init")
         /\ ~HasClause(AnnotationOf(Declared(i)), "associated")
         /\ ~HasClause(AnnotationOf(Declared(i)), "rent_exempt"))
            => LET cs == Leaf(Parsed(i)).constraints
               IN  /\ Leaf(Parsed(i)).is_init
                   /\ Leaf(Parsed(i)).is_mut
                   /\ Count(cs, "RentExempt") = 1
                   /\ \A j \in Positions(cs, "RentExempt") : cs[j].mode = "Enforce"
                   /\ (AnnotationOf(Declared(i)) = <<Ident("init")>>
                          => cs = <<ConstraintRentExempt("Enforce")>>)

\* `init` twice among other clauses, parsed as a leaf field
C3_Witness ==
    /\ pc = "done"
    /\ Len(fields) = 1
    /\ Annotated(Declared(1))
    /\ IsLeaf(Parsed(1))
    /\ LET toks == AnnotationOf(Declared(1))
       IN  /\ Cardinality(ClausePositions(toks, "init")) = 2
           /\ HasClause(toks, "signer")
           /\ ~HasClause(toks, "associated")
           /\ ~HasClause(toks, "rent_exempt")
    /\ Leaf(Parsed(1)).is_init

\* C4 as stated: the signer flag is true and the list holds exactly one
\* Signer constraint when `signer` occurs; the flag is false and the list
\* holds none when it does not.
C4_ExactlyOneSigner ==
    \A i \in ParsedIndices :
        (Annotated(Declared(i)) /\ IsLeaf(Parsed(i)))
            => LET toks == AnnotationOf(Declared(i))
               IN  IF HasClause(toks, "signer")
                   THEN Leaf(Parsed(i)).is_signer
                            /\ Count(Leaf(Parsed(i)).constraints, "Signer") = 1
                   ELSE ~Leaf(Parsed(i)).is_signer
                            /\ Count(Leaf(Parsed(i)).constraints, "Signer") = 0

\* C4 amended: the signer flag is true exactly when a `signer` clause occurs,
\* and the list holds one Signer constraint for each `signer` clause (exactly
\* one when `signer` occurs once, none when it does not occur).
C4_OneSignerPerClause ==
    \A i \in ParsedIndices :
        (Annotated(Declared(i)) /\ IsLeaf(Parsed(i)))
            => LET toks == AnnotationOf(Declared(i))
               IN  /\ Leaf(Parsed(i)).is_signer <=> HasClause(toks, "signer")
                   /\ Count(Leaf(Parsed(i)).constraints, "Signer")
                          = Cardinality(ClausePositions(toks, "signer"))

\* `signer` twice as a clause and once as the value of another clause, parsed
\* into two Signer constraints
C4_Witness ==
    /\ pc = "done"
    /\ Len(fields) = 1
    /\ Annotated(Declared(1))
    /\ IsLeaf(Parsed(1))
    /\ LET toks == AnnotationOf(Declared(1))
       IN  /\ Cardinality(ClausePositions(toks, "signer")) = 2
           /\ \E j \in 1..Len(toks) : toks[j] = Ident("signer") /\ ~ClauseAt(toks, j, "signer")
    /\ Leaf(Parsed(1)).is_signer
    /\ Count(Leaf(Parsed(1)).constraints, "Signer") = 2

-----------------------------------------------------------------------------
\* every declared field, taken alone, parses without a panic
AllFieldsParse ==
    \A i \in 1..Len(strct.fields.list) : ParseAccountField(Declared(i)).ok
\* the first declared field that does not
FirstFailing ==
    CHOOSE k \in 1..Len(strct.fields.list) :
        /\ ~ParseAccountField(Declared(k)).ok
        /\ \A j \in 1..(k - 1) : ParseAccountField(Declared(j)).ok

\* parse ends with a value exactly when every field parses alone; it ends
\* otherwise with the panic of the first failing field, having yielded no
\* field after it, and with no field list
EndsAsItsFieldsDo ==
    /\ pc = "start" => Len(fields) = idx /\ IsNone(result) /\ IsNone(panic_msg)
    /\ pc = "done" =>
          /\ AllFieldsParse
          /\ IsSome(result)
          /\ IsNone(panic_msg)
    /\ pc = "panicked" =>
          /\ IsNone(result)
          /\ fields = <<>>
          /\ ~AllFieldsParse
          /\ LET k == FirstFailing
             IN  idx = k /\ panic_msg = Some(ParseAccountField(Declared(k)).msg)

\* C5 as stated: EndsAsItsFieldsDo, of every struct.
C5_ParseIffEveryFieldParses == EndsAsItsFieldsDo

\* C5 amended: EndsAsItsFieldsDo, of every struct whose fields are named; a
\* struct whose fields are not named ends with the panic "invalid input",
\* no field having been yielded.
C5_NamedParseIffEveryFieldParses ==
    /\ strct.fields.kind = "Named" => EndsAsItsFieldsDo
    /\ (strct.fields.kind # "Named" /\ pc # "start") =>
          /\ pc = "panicked"
          /\ panic_msg = Some("invalid input")
          /\ idx = 0
          /\ fields = <<>>
          /\ IsNone(result)

\* a struct of three fields whose second is the first to fail, panicked
C5_Witness ==
    /\ pc = "panicked"
    /\ strct.fields.kind = "Named"
    /\ Len(strct.fields.list) = 3
    /\ ParseAccountField(Declared(1)).ok
    /\ ~ParseAccountField(Declared(2)).ok
    /\ ~ParseAccountField(Declared(3)).ok
    /\ ParseAccountField(Declared(2)).msg # ParseAccountField(Declared(3)).msg
    /\ idx = 2

\* C6: the field list of a parsed struct of n named fields has n entries, the
\* i-th carrying the name of the i-th declared field, leaf or composite.
C6_DeclarationOrder ==
    pc = "done" =>
        LET r == Unwrap(result)
        IN  /\ Len(r.fields) = Len(r.strct.fields.list)
            /\ \A i \in 1..Len(r.fields) :
                  NameOf(r.fields[i]) = Unwrap(r.strct.fields.list[i].ident)

\* a parsed struct of three fields, of two names, leaf and composite
C6_Witness ==
    /\ pc = "done"
    /\ Len(Unwrap(result).fields) = 3
    /\ NameOf(Unwrap(result).fields[1]) # NameOf(Unwrap(result).fields[2])
    /\ NameOf(Unwrap(result).fields[1]) = NameOf(Unwrap(result).fields[3])
    /\ IsLeaf(Unwrap(result).fields[1])
    /\ IsComposite(Unwrap(result).fields[2])

SpecifyOneMsg == "Invalid syntax: please specify one account attribute."

\* C7: a field with two or more `account` attributes fails with the
\* specify-one-attribute panic, whatever its tokens and its type; attributes
\* of another path do not count, and a field with exactly one `account`
\* attribute among others is parsed from that attribute.
C7_OneAccountAttribute ==
    /\ \A i \in 1..idx :
          Len(AccountAttrsOf(Declared(i))) >= 2 =>
              pc = "panicked" /\ panic_msg = Some(SpecifyOneMsg)
    /\ (pc = "panicked" /\ panic_msg = Some(SpecifyOneMsg)) =>
          Len(AccountAttrsOf(Declared(idx))) >= 2
    /\ \A i \in ParsedIndices :
          Len(AccountAttrsOf(Declared(i))) = 1 =>
              LET t == ParseConstraints(AccountAttrsOf(Declared(i))[1])
              IN  /\ t.ok
                  /\ ConstraintsOf(Parsed(i)) = Val(t).constraints
                  /\ IsLeaf(Parsed(i)) =>
                        /\ Leaf(Parsed(i)).is_mut = Val(t).is_mut
                        /\ Leaf(Parsed(i)).is_signer = Val(t).is_signer
                        /\ Leaf(Parsed(i)).is_init = Val(t).is_init

\* a field of a type that is no path, with two `account` attributes neither
\* of which parses, panicked
C7_Witness ==
    /\ pc = "panicked"
    /\ idx = 1
    /\ Declared(1).ty.kind # "Path"
    /\ Len(AccountAttrsOf(Declared(1))) = 2
    /\ \A k \in 1..2 : ~ParseConstraints(AccountAttrsOf(Declared(1))[k]).ok
    /\ panic_msg = Some(SpecifyOneMsg)

\* C8: a field without constraint annotation is parsed with an empty
\* constraint list and, as a leaf, with the three flags false, no payer, no
\* space and no seed identifier.
C8_NoAnnotationDefaults ==
    \A i \in ParsedIndices :
        Len(AccountAttrsOf(Declared(i))) = 0 =>
            /\ ConstraintsOf(Parsed(i)) = <<>>
            /\ IsLeaf(Parsed(i)) =>
                  /\ ~Leaf(Parsed(i)).is_mut
                  /\ ~Leaf(Parsed(i)).is_signer
                  /\ ~Leaf(Parsed(i)).is_init
                  /\ Leaf(Parsed(i)).payer = None
                  /\ Leaf(Parsed(i)).space = None
                  /\ Leaf(Parsed(i)).associated_seeds = <<>>

\* a leaf field whose attributes are all of another path, parsed
C8_Witness ==
    /\ pc = "done"
    /\ Len(fields) = 1
    /\ IsLeaf(Parsed(1))
    /\ Len(Declared(1).attrs) = 2
    /\ Len(AccountAttrsOf(Declared(1))) = 0
    /\ Leaf(Parsed(1)).constraints = <<>>

SevenWrappers ==
    {"ProgramState", "ProgramAccount", "CpiAccount", "Sysvar", "AccountInfo",
     "CpiState", "Loader"}

\* C9: a parsed field has a type that is a path of one segment; it is a leaf
\* exactly when the identifier of the segment is one of the seven wrapper
\* names, and is otherwise a composite whose symbol is that identifier; a
\* field whose type is no path, or a path of several segments, is fatal.
C9_Classification ==
    /\ \A i \in ParsedIndices :
          /\ Declared(i).ty.kind = "Path"
          /\ Len(Declared(i).ty.segments) = 1
          /\ IsLeaf(Parsed(i)) <=> Declared(i).ty.segments[1].ident \in SevenWrappers
          /\ IsComposite(Parsed(i)) =>
                Composite(Parsed(i)).symbol = Declared(i).ty.segments[1].ident
    /\ \A i \in 1..idx :
          (Declared(i).ty.kind # "Path" \/ Len(Declared(i).ty.segments) # 1) =>
              pc = "panicked"

\* a parsed struct with a Loader leaf
C9_Witness ==
    /\ pc = "done"
    /\ Len(fields) = 1
    /\ IsLeaf(Parsed(1))
    /\ Declared(1).ty.segments[1].ident = "Loader"
    /\ Leaf(Parsed(1)).ty.kind = "Loader"

\* the type of f carries exactly two generic arguments, the second a type
\* that is a path of one segment
TwoArgumentsSecondBare(f) ==
    LET arguments == f.ty.segments[1].arguments
    IN  /\ arguments.kind = "AngleBracketed"
        /\ Len(arguments.args) = 2
        /\ arguments.args[2].kind = "Type"
        /\ arguments.args[2].ty_kind = "Path"
        /\ Len(arguments.args[2].segments) = 1

\* C10 as stated: every leaf field of a parsed struct, AccountInfo included,
\* has a type with exactly two generic arguments, the second a bare identifier.
C10_EveryLeafTwoArguments ==
    pc = "done" =>
        \A i \in 1..Len(Unwrap(result).fields) :
            IsLeaf(Unwrap(result).fields[i]) => TwoArgumentsSecondBare(Declared(i))

\* C10 amended: every leaf field of a parsed struct whose wrapper is one of
\* the six other than AccountInfo has a type with exactly two generic
\* arguments, the second a bare identifier.
C10_GenericLeafTwoArguments ==
    pc = "done" =>
        \A i \in 1..Len(Unwrap(result).fields) :
            (/\ IsLeaf(Unwrap(result).fields[i])
             /\ Declared(i).ty.segments[1].ident # "AccountInfo")
                => TwoArgumentsSecondBare(Declared(i))

\* a parsed Sysvar leaf whose first generic argument is no lifetime
C10_Witness ==
    /\ pc = "done"
    /\ Len(fields) = 1
    /\ IsLeaf(Parsed(1))
    /\ Declared(1).ty.segments[1].ident = "Sysvar"
    /\ Declared(1).ty.segments[1].arguments.args[1].kind = "Type"
    /\ TwoArgumentsSecondBare(Declared(1))

-----------------------------------------------------------------------------
\* the attributes of f do not make its parse fail: it has no `account`
\* attribute, or one whose tokens parse
AttrsParse(f) ==
    \/ Len(AccountAttrsOf(f)) = 0
    \/ Len(AccountAttrsOf(f)) = 1 /\ ParseConstraints(AccountAttrsOf(f)[1]).ok

SixGenericWrappers ==
    {"ProgramState", "CpiState", "ProgramAccount", "CpiAccount", "Loader", "Sysvar"}

\* the type of f is the path of one segment whose identifier is w
IsWrapper(f, w) ==
    f.ty.kind = "Path" /\ Len(f.ty.segments) = 1 /\ f.ty.segments[1].ident = w

\* the generic arguments of f are not two, or the second is no type path, or
\* a path of several segments
MalformedArguments(f) ==
    LET arguments == f.ty.segments[1].arguments
    IN  /\ arguments.kind = "AngleBracketed"
        /\ \/ Len(arguments.args) # 2
           \/ arguments.args[2].kind # "Type"
           \/ arguments.args[2].ty_kind # "Path"
           \/ Len(arguments.args[2].segments) # 1

\* the message that names the wrapper w
InvalidWrapperMsg(w) ==
    CASE w = "ProgramState" -> "Invalid ProgramState"
      [] w = "CpiState" -> "Invalid CpiState"
      [] w = "ProgramAccount" -> "Invalid ProgramAccount"
      [] w = "CpiAccount" -> "Invalid CpiAccount"
      [] w = "Loader" -> "Invalid Loader"
      [] w = "Sysvar" -> "Invalid Sysvar"

\* C11: for each of the six generic wrappers, a type with malformed generic
\* arguments is fatal, and the panic carries the message that names that
\* wrapper.
C11_WrapperSpecificError ==
    \A i \in 1..idx : \A w \in SixGenericWrappers :
        (/\ IsWrapper(Declared(i), w)
         /\ MalformedArguments(Declared(i))
         /\ AttrsParse(Declared(i)))
            => pc = "panicked" /\ panic_msg = Some(InvalidWrapperMsg(w))

\* the names of the table of parse_sysvar, as the specification lists them
RecognizedSysvars ==
    {"Clock", "Rent", "EpochSchedule", "Fees", "RecentBlockhashes", "SlotHashes",
     "SlotHistory", "StakeHistory", "Instructions", "Rewards"}

\* Sysvar<'info, n>
SysvarOf(n) == PathTy(<<Segment("Sysvar", AngleBracketed(<<LifetimeArg, TypeArg(<<n>>)>>))>>)

\* a Sysvar of a recognized name is parsed into the leaf of the kind of that
\* name, and a Sysvar of any other name is fatal with "Invalid Sysvar"
SysvarResolution ==
    \A i \in 1..idx : \A n \in ResourceIdents :
        (Declared(i).ty = SysvarOf(n) /\ AttrsParse(Declared(i))) =>
            IF n \in RecognizedSysvars
            THEN /\ pc # "panicked"
                 /\ IsLeaf(Parsed(i))
                 /\ Leaf(Parsed(i)).ty.kind = "Sysvar"
                 /\ Leaf(Parsed(i)).ty.sysvar = Some(n)
            ELSE pc = "panicked" /\ panic_msg = Some("Invalid Sysvar")

\* the identifiers a Sysvar field resolves with
ResolvedSysvars ==
    {n \in ResourceIdents : ParseAccountField(SynField(Some("a"), <<>>, SysvarOf(n))).ok}

\* C12 as stated: SysvarResolution, the recognized names being exactly nine.
C12_NineSysvars ==
    (\E i \in 1..idx : \E n \in ResourceIdents : Declared(i).ty = SysvarOf(n)) =>
        SysvarResolution /\ Cardinality(ResolvedSysvars) = 9

\* C12 amended: SysvarResolution, the recognized names being the ten of the
\* table, Rewards among them.
C12_TenSysvars ==
    (\E i \in 1..idx : \E n \in ResourceIdents : Declared(i).ty = SysvarOf(n)) =>
        SysvarResolution /\ Cardinality(RecognizedSysvars) = 10
            /\ ResolvedSysvars = RecognizedSysvars

\* Sysvar<'info, Rewards>, parsed into the Rewards kind
C12_Witness ==
    /\ pc = "done"
    /\ Len(fields) = 1
    /\ Declared(1).ty = SysvarOf("Rewards")
    /\ IsLeaf(Parsed(1))
    /\ Leaf(Parsed(1)).ty.sysvar = Some("Rewards")

-----------------------------------------------------------------------------
(* Annotations taken alone: the struct has one field, a leaf of well-formed *)
(* type with one `account` attribute, so that parse ends as the annotation  *)
(* decides.                                                                 *)

OneAnnotated ==
    /\ strct.fields.kind = "Named"
    /\ Len(strct.fields.list) = 1
    /\ Annotated(Declared(1))
    /\ Declared(1).ty = LeafTy
TheTokens == AnnotationOf(Declared(1))
TheLeaf == Leaf(Parsed(1))

\* parse_constraints returns on the annotation toks
Accepted(toks) == ParseConstraints(AccountAttr(toks)).ok

IsComma(t) == t.kind = "Punct" /\ t.text = ","

\* Token i of toks is one the loop dispatches on: the tokens before it are
\* an annotation the parser returns on, and are not one ending in a
\* `rent_exempt` that token i would follow.
FollowsBareRentExempt(toks, i) == i > 1 /\ ClauseAt(toks, i - 1, "rent_exempt")
DispatchAt(toks, i) ==
    /\ i \in 1..Len(toks)
    /\ ~FollowsBareRentExempt(toks, i)
    /\ Accepted(SubSeq(toks, 1, i - 1))

\* toks is clause (',' clause)*, given that each of its clauses is
\* well-formed: it is not empty, every comma stands between two clauses, and
\* every clause but the first follows a comma.
ConformsToGrammar(toks) ==
    /\ toks # <<>>
    /\ ~IsComma(toks[1])
    /\ ~IsComma(toks[Len(toks)])
    /\ \A i \in 2..Len(toks) :
          /\ IsComma(toks[i]) => ~IsComma(toks[i - 1])
          /\ (~IsComma(toks[i]) /\ ~IsEq(toks[i]) /\ ~IsEq(toks[i - 1]))
                => IsComma(toks[i - 1])

\* C13: every annotation parse_constraints accepts is clause (',' clause)*;
\* an annotation that is not is fatal.
C13_AcceptedConforms ==
    (OneAnnotated /\ pc = "done") => ConformsToGrammar(TheTokens)

ValueKeywords ==
    {"seeds", "belongs_to", "has_one", "owner", "state", "associated", "with",
     "payer", "space"}
IsKeyword(t, ks) == t.kind = "Ident" /\ t.text \in ks

\* the unquoted text of the literal t lexes
UnquotedLexes(t) == Lexes(StripQuotes(t.lit))

\* The last token of the annotation, when it is one the loop dispatches on,
\* is accepted exactly when it is a keyword, a comma or a literal for which
\* literalOk holds: the parse then returns, or fails for want of the value of
\* a value-bearing keyword; any other token is fatal, and nothing of the
\* clauses before it is returned.
LastTokenDispatch(literalOk(_)) ==
    (OneAnnotated /\ pc # "start") =>
        LET toks == TheTokens
            t == toks[Len(toks)]
        IN  DispatchAt(toks, Len(toks)) =>
            CASE IsKeyword(t, ValueKeywords) ->
                    pc = "panicked" /\ panic_msg = Some(UnwrapNoneMsg)
              [] IsKeyword(t, Keywords \ ValueKeywords) \/ IsComma(t) -> pc = "done"
              [] t.kind = "Literal" /\ literalOk(t) -> pc = "done"
              [] OTHER -> pc = "panicked" /\ fields = <<>> /\ IsNone(result)

AnyLiteral(t) == TRUE

\* C14 as stated: LastTokenDispatch, every literal being accepted.
C14_KeywordCommaOrLiteral == LastTokenDispatch(AnyLiteral)

\* C14 amended: LastTokenDispatch, a literal being accepted when its text,
\* the quote characters removed, lexes as a token stream.
C14_KeywordCommaOrLexableLiteral == LastTokenDispatch(UnquotedLexes)

\* an unknown identifier after a `signer` clause and a comma, panicked
C14_Witness ==
    /\ OneAnnotated
    /\ pc = "panicked"
    /\ TheTokens = <<Ident("signer"), Punct(","), Ident("foo")>>
    /\ panic_msg = Some("invalid syntax")
    /\ fields = <<>>

Last(cs) == cs[Len(cs)]
EndsWithRentExempt(cs, mode) == cs # <<>> /\ Last(cs) = ConstraintRentExempt(mode)

\* the two tokens after position i are `= skip`
IsSkipValue(toks, i) ==
    /\ i + 2 <= Len(toks)
    /\ IsEq(toks[i + 1])
    /\ toks[i + 2] = Ident("skip")

\* C15: a `rent_exempt` the loop dispatches on decides enforce only as the
\* last token of the annotation; before any other token it must be followed
\* by `=` and the identifier `skip`, which decides skip; every other
\* continuation, a comma included, is fatal.
C15_BareOnlyLast ==
    (OneAnnotated /\ pc # "start") =>
        LET toks == TheTokens
        IN  \A i \in 1..Len(toks) :
                (toks[i] = Ident("rent_exempt") /\ DispatchAt(toks, i)) =>
                    CASE i = Len(toks) ->
                            /\ pc = "done"
                            /\ EndsWithRentExempt(ConstraintsOf(Parsed(1)), "Enforce")
                      [] i < Len(toks) /\ IsSkipValue(toks, i) ->
                            LET upto == ParseConstraints(AccountAttr(SubSeq(toks, 1, i + 2)))
                            IN  /\ upto.ok
                                /\ EndsWithRentExempt(Val(upto).constraints, "Skip")
                                /\ (i + 2 = Len(toks)) =>
                                      /\ pc = "done"
                                      /\ EndsWithRentExempt(ConstraintsOf(Parsed(1)), "Skip")
                      [] OTHER -> pc = "panicked"

\* `rent_exempt, init`: the comma after the bare keyword is fatal
C15_Witness ==
    /\ OneAnnotated
    /\ pc = "panicked"
    /\ TheTokens = <<Ident("rent_exempt"), Punct(","), Ident("init")>>

\* the constraint list cs without its trailing RentExempt, if it has one
Body(cs) ==
    IF cs # <<>> /\ Last(cs).kind = "RentExempt" THEN SubSeq(cs, 1, Len(cs) - 1) ELSE cs

ExpectedKind(k) ==
    CASE k = "seeds" -> "Group"
      [] k = "space" -> "Literal"
      [] OTHER -> "Ident"

\* the keyword at position i is followed by `=` and a value of its kind
WellFormedValue(toks, i) ==
    /\ i + 2 <= Len(toks)
    /\ IsEq(toks[i + 1])
    /\ toks[i + 2].kind = ExpectedKind(toks[i].text)

\* the constraints the well-formed value clause at position i stands for
ValueClauseConstraints(toks, i) ==
    LET k == toks[i].text
        v == toks[i + 2]
    IN  CASE k = "seeds" -> <<ConstraintSeeds(v)>>
          [] k \in {"belongs_to", "has_one"} -> <<ConstraintBelongsTo(v.text)>>
          [] k = "owner" -> <<ConstraintOwner(v.text)>>
          [] k = "state" -> <<ConstraintState(v.text)>>
          [] k = "associated" -> <<ConstraintAssociated(v.text)>>
          [] OTHER -> <<>>

\* C16: a value-bearing keyword the loop dispatches on consumes the next two
\* tokens, `=` and a value of the kind of the keyword; a missing or wrong
\* token is fatal and nothing is returned. On success the value is the
\* operand of the clause and is not dispatched as a keyword: up to the value
\* the result differs from the result of the tokens before the keyword by
\* the constraint of the clause alone, the signer flag is as it was, the
\* initialize flag is not raised and no RentExempt appears.
C16_ValueNeverDispatched ==
    (OneAnnotated /\ pc # "start") =>
        LET toks == TheTokens
        IN  \A i \in 1..Len(toks) :
                (IsKeyword(toks[i], ValueKeywords) /\ DispatchAt(toks, i)) =>
                    IF ~WellFormedValue(toks, i)
                    THEN pc = "panicked" /\ fields = <<>> /\ IsNone(result)
                    ELSE LET before == ParseConstraints(AccountAttr(SubSeq(toks, 1, i - 1)))
                             upto == ParseConstraints(AccountAttr(SubSeq(toks, 1, i + 2)))
                             b == Val(before)
                             u == Val(upto)
                         IN  /\ (toks[i].text # "space" \/ UnquotedLexes(toks[i + 2])) => upto.ok
                             /\ upto.ok =>
                                  /\ Body(u.constraints) =
                                        Body(b.constraints) \o ValueClauseConstraints(toks, i)
                                  /\ Len(u.constraints) - Len(Body(u.constraints)) =
                                        Len(b.constraints) - Len(Body(b.constraints))
                                  /\ u.is_signer = b.is_signer
                                  /\ u.is_init => b.is_init
                                  /\ (i + 2 = Len(toks)) =>
                                        /\ pc = "done"
                                        /\ TheLeaf.constraints = u.constraints
                                        /\ TheLeaf.is_signer = u.is_signer
                                        /\ TheLeaf.is_init = u.is_init

\* `owner = signer`: Owner(signer), the signer flag not set
C16_Witness ==
    /\ OneAnnotated
    /\ pc = "done"
    /\ TheTokens = <<Ident("owner"), Punct("="), Ident("signer")>>
    /\ TheLeaf.constraints = <<ConstraintOwner("signer")>>
    /\ ~TheLeaf.is_signer

\* Token i of an accepted annotation opens a clause: it is neither an `=`
\* nor the value after one.
OpensClause(toks, i) == ~IsEq(toks[i]) /\ (i = 1 \/ ~IsEq(toks[i - 1]))

\* the constraints the clause opened at position i stands for
ClauseConstraints(toks, i) ==
    LET t == toks[i]
    IN  CASE t.kind = "Literal" -> <<ConstraintLiteral(StripQuotes(t.lit))>>
          [] t = Ident("signer") -> <<ConstraintSigner>>
          [] t = Ident("executable") -> <<ConstraintExecutable>>
          [] IsKeyword(t, ValueKeywords) -> ValueClauseConstraints(toks, i)
          [] OTHER -> <<>>

\* the constraints of the clauses opened at the positions i.., in token order
RECURSIVE ConstraintsFrom(_, _)
ConstraintsFrom(toks, i) ==
    IF i > Len(toks) THEN <<>>
    ELSE (IF OpensClause(toks, i) THEN ClauseConstraints(toks, i) ELSE <<>>)
            \o ConstraintsFrom(toks, i + 1)

\* C17: the constraint list of every field parsed from an annotation, its
\* trailing RentExempt removed, is the sequence of the constraints of the
\* clauses of the annotation in token order: one per signer, seeds,
\* belongs_to or has_one, owner, executable, state, associated and top-level
\* literal, none for init, mut, with, payer, space and rent_exempt.
C17_ConstraintsInTokenOrder ==
    \A i \in ParsedIndices :
        Annotated(Declared(i)) =>
            Body(ConstraintsOf(Parsed(i))) = ConstraintsFrom(AnnotationOf(Declared(i)), 1)

\* `signer init has_one = foo`: init leaves nothing between the two
\* constraints, and the RentExempt it causes comes last
C17_Witness ==
    /\ OneAnnotated
    /\ pc = "done"
    /\ TheTokens = <<Ident("signer"), Ident("init"), Ident("has_one"), Punct("="), Ident("foo")>>
    /\ TheLeaf.constraints =
          <<ConstraintSigner, ConstraintBelongsTo("foo"), ConstraintRentExempt("Enforce")>>

\* the greatest element of the non-empty set of positions S
Greatest(S) == CHOOSE m \in S : \A n \in S : n <= m

\* the decision the clauses of toks leave: that of the last `rent_exempt`
\* clause, or enforce when `init` stands alone
DecisionOf(toks) ==
    IF ClausePositions(toks, "rent_exempt") = {} THEN "Enforce"
    ELSE IF Greatest(ClausePositions(toks, "rent_exempt")) \in RentExemptValued(toks)
         THEN "Skip"
         ELSE "Enforce"

\* C18: the constraint list of every field parsed from an annotation holds a
\* RentExempt exactly when the annotation has an `init` or a `rent_exempt`
\* clause; it is then the only one and the last element, and its value is
\* that of the last `rent_exempt` clause (Skip for `rent_exempt = skip`,
\* Enforce for the bare keyword), or Enforce when only `init` is given.
C18_OneRentExemptLast ==
    \A i \in ParsedIndices :
        Annotated(Declared(i)) =>
            LET toks == AnnotationOf(Declared(i))
                cs == ConstraintsOf(Parsed(i))
            IN  IF HasClause(toks, "init") \/ HasClause(toks, "rent_exempt")
                THEN /\ Positions(cs, "RentExempt") = {Len(cs)}
                     /\ Last(cs) = ConstraintRentExempt(DecisionOf(toks))
                ELSE Positions(cs, "RentExempt") = {}

\* `rent_exempt = skip rent_exempt`: the later bare clause decides enforce
C18_Witness ==
    /\ OneAnnotated
    /\ pc = "done"
    /\ TheTokens = <<Ident("rent_exempt"), Punct("="), Ident("skip"), Ident("rent_exempt")>>
    /\ TheLeaf.constraints = <<ConstraintRentExempt("Enforce")>>

\* C19: in every leaf field parsed from an annotation, initialize implies
\* mutable, a RentExempt constraint in the list and no Associated constraint
\* in it; and mutable holds exactly when the annotation has an `init`, a
\* `mut` or an `associated` clause.
C19_FlagsConsistent ==
    \A i \in ParsedIndices :
        (Annotated(Declared(i)) /\ IsLeaf(Parsed(i))) =>
            LET toks == AnnotationOf(Declared(i))
                f == Leaf(Parsed(i))
            IN  /\ f.is_init =>
                      /\ f.is_mut
                      /\ Count(f.constraints, "RentExempt") >= 1
                      /\ Count(f.constraints, "Associated") = 0
                /\ f.is_mut <=>
                      \/ HasClause(toks, "init")
                      \/ HasClause(toks, "mut")
                      \/ HasClause(toks, "associated")

\* `rent_exempt = skip init`: initialize and mutable, RentExempt(Skip) listed
C19_Witness ==
    /\ OneAnnotated
    /\ pc = "done"
    /\ TheTokens = <<Ident("rent_exempt"), Punct("="), Ident("skip"), Ident("init")>>
    /\ TheLeaf.is_init
    /\ TheLeaf.is_mut
    /\ TheLeaf.constraints = <<ConstraintRentExempt("Skip")>>

\* the struct has one field, annotated and of a composite type
OneComposite ==
    /\ strct.fields.kind = "Named"
    /\ Len(strct.fields.list) = 1
    /\ Annotated(Declared(1))
    /\ Declared(1).ty = NestedTy

\* what parse_account_field returns on the declared field were its type a
\* leaf wrapper
AsLeaf(f) == ParseAccountField([f EXCEPT !.ty = LeafTy])

\* C20: a composite field ends as a leaf field with the same annotation
\* would: a malformed annotation is fatal with the same panic, and otherwise
\* the CompositeField holds the constraint list the leaf would hold, whatever
\* flags, payer, space and seed identifiers the annotation sets.
C20_CompositeAsLeaf ==
    (OneComposite /\ pc # "start") =>
        LET leaf == AsLeaf(Declared(1))
        IN  IF leaf.ok
            THEN /\ pc = "done"
                 /\ IsComposite(Parsed(1))
                 /\ Composite(Parsed(1)).constraints = Leaf(Val(leaf)).constraints
                 /\ Body(Composite(Parsed(1)).constraints) = ConstraintsFrom(TheTokens, 1)
            ELSE /\ pc = "panicked"
                 /\ panic_msg = Some(leaf.msg)
                 /\ fields = <<>>

\* a composite field with `init payer = foo`: RentExempt(Enforce) kept, the
\* flags and the payer dropped
C20_Witness ==
    /\ OneComposite
    /\ pc = "done"
    /\ TheTokens = <<Ident("init"), Ident("payer"), Punct("="), Ident("foo")>>
    /\ IsComposite(Parsed(1))
    /\ Composite(Parsed(1)).constraints = <<ConstraintRentExempt("Enforce")>>

====
